---- MODULE Spec2Model ----
(***************************************************************************)
(* Model of app.py: the draft append queue and the turn structure of       *)
(* main(), the suggestion cache of generate_ai_suggestions and the         *)
(* question history of generate_guiding_questions.                         *)
(*                                                                         *)
(* A Python string is a sequence of one-symbol strings.  The whitespace    *)
(* symbols are " " and "\n".                                               *)
(***************************************************************************)
EXTENDS Integers, Sequences, FiniteSets, TLC

VARIABLES
    draft,            \* st.session_state["draft"]
    queue,            \* st.session_state["_draft_append_queue"] (absent = <<>>)
    saved_versions,   \* st.session_state["saved_versions"]
    use_chat_mode,    \* st.session_state["use_chat_mode"]
    events,           \* st.session_state["events"] (kind and payload, no timestamp)
    clock,            \* the value now() returned last
    pc,               \* position in main(): 0 = no run, i = about to run MainOrder[i]
    trigger,          \* the widget interaction the current run reacts to
    drains,           \* runs of _apply_draft_queue in the current execution of main
    earlyAccess,      \* components that touched the draft in this run before a drain
    baseDraft,        \* the draft as last set by anything but a drain
    enqLog,           \* fragments _queue_append accepted since baseDraft was set
    ret,              \* the operation completed last, with what it returned
    n_sugs,           \* st.session_state["n_sugs"]
    focus_kw,         \* st.session_state["focus_kw"]
    ai_suggestions_cache,  \* st.session_state["ai_suggestions_cache"]
    apiLog,           \* the cache keys call_openai_api was invoked for, in order
    sugCalls,         \* calls of generate_ai_suggestions so far
    question_history, \* st.session_state["question_history"]
    question_nonce,   \* st.session_state["question_nonce"]
    qAnswered,        \* calls of generate_guiding_questions the model answered
    gq,               \* generate_guiding_questions in progress: position and locals
    args,             \* the arguments of a function that is called on its own
    inflight          \* calls of generate_ai_suggestions in progress: position and locals

sugVars == <<n_sugs, ai_suggestions_cache, apiLog, sugCalls>>

qVars == <<focus_kw, question_history, question_nonce, qAnswered, gq>>

vars == <<draft, queue, saved_versions, use_chat_mode, events, clock, pc, trigger,
          drains, earlyAccess, baseDraft, enqLog, ret, sugVars, qVars, args, inflight>>

----------------------------------------------------------------------------
\* Bounds of the model.

MaxDraftLen == 6
MaxVersions == 1
MaxEvents == 1
MaxClock == 1
MaxQueue == 3

----------------------------------------------------------------------------
\* Strings.

Whitespace == {" ", "\n"}

\* str.lstrip(): what follows the leading whitespace.
LStrip(s) ==
    IF \A i \in 1..Len(s) : s[i] \in Whitespace THEN <<>>
    ELSE SubSeq(s, CHOOSE i \in 1..Len(s) :
                      s[i] \notin Whitespace /\ \A j \in 1..(i - 1) : s[j] \in Whitespace,
                Len(s))

\* str.rstrip(): what precedes the trailing whitespace.
RStrip(s) ==
    IF \A i \in 1..Len(s) : s[i] \in Whitespace THEN <<>>
    ELSE SubSeq(s, 1, CHOOSE i \in 1..Len(s) :
                         s[i] \notin Whitespace /\ \A j \in (i + 1)..Len(s) : s[j] \in Whitespace)

\* str.strip()
Strip(s) == RStrip(LStrip(s))

\* The separator "\n\n" of _apply_draft_queue.
Sep == <<"\n", "\n">>

----------------------------------------------------------------------------
\* _apply_draft_queue and _queue_append.

\* A drain that puts each fragment in front of the running draft.
RECURSIVE DrainInto_prepend(_, _)
DrainInto_prepend(cur, queued) ==
    IF queued = <<>> THEN cur
    ELSE LET part == Head(queued) IN
         IF part = <<>> THEN DrainInto_prepend(cur, Tail(queued))
         ELSE DrainInto_prepend(
                  Strip(part \o (IF Strip(cur) # <<>> THEN Sep ELSE <<>>) \o cur),
                  Tail(queued))

\* A drain that joins without the final strip().
RECURSIVE DrainInto_nostrip(_, _)
DrainInto_nostrip(cur, queued) ==
    IF queued = <<>> THEN cur
    ELSE LET part == Head(queued) IN
         IF part = <<>> THEN DrainInto_nostrip(cur, Tail(queued))
         ELSE DrainInto_nostrip(
                  cur \o (IF Strip(cur) # <<>> THEN Sep ELSE <<>>) \o part,
                  Tail(queued))

\* A drain that strips only the end of the running draft.
RECURSIVE DrainInto_rstrip(_, _)
DrainInto_rstrip(cur, queued) ==
    IF queued = <<>> THEN cur
    ELSE LET part == Head(queued) IN
         IF part = <<>> THEN DrainInto_rstrip(cur, Tail(queued))
         ELSE DrainInto_rstrip(
                  RStrip(cur \o (IF Strip(cur) # <<>> THEN Sep ELSE <<>>) \o part),
                  Tail(queued))

\* The loop of _apply_draft_queue over the popped queue.
RECURSIVE DrainInto(_, _)
DrainInto(cur, queued) ==
    IF queued = <<>> THEN cur
    ELSE LET part == Head(queued) IN
         IF part = <<>> THEN DrainInto(cur, Tail(queued))
         ELSE DrainInto(
                  Strip(cur \o (IF Strip(cur) # <<>> THEN Sep ELSE <<>>) \o part),
                  Tail(queued))

\* A drain that strips the draft whether or not anything was queued.
DraftAfterDrain_strip(d, queued) == Strip(DrainInto(d, queued))

\* The draft _apply_draft_queue leaves: untouched when the popped queue is empty.
DraftAfterDrain(d, queued) == IF queued # <<>> THEN DrainInto(d, queued) ELSE d

\* A _queue_append that drops the fragment.
QueueAfterAppend_drop(q, text) == q

\* The queue _queue_append leaves (before its st.rerun()).
QueueAfterAppend(q, text) == IF text = <<>> THEN q ELSE Append(q, text)

----------------------------------------------------------------------------
\* Inputs of the draft editing surface.

\* What the user can leave in the free-edit text area (key "draft").
UserDrafts == { <<>>, <<" ", "x">> }

\* What st.chat_input can deliver: any text, stripped or not.
ChatTexts == { <<"a", " ">>, <<" ">> }

\* What the add buttons pass to _queue_append: a suggestion, or the stripped
\* content of an edit field, which may be empty.
AddTexts == { <<>>, <<"s">> }

NoTrigger == [kind |-> "none", text |-> <<>>, idx |-> 0]

\* No function is called on its own.
NoArgs == [op |-> "none"]

\* No call of generate_ai_suggestions is in progress.
NoCalls == <<>>

\* No call of generate_guiding_questions is in progress.
GqIdle == [pc |-> "idle", hist |-> <<>>, cleaned |-> <<>>, seen |-> {}]

----------------------------------------------------------------------------
\* main(): one execution per widget interaction or st.rerun().

\* A main() that renders the sidebar before draining the queue.
MainOrder_late == <<"init_state", "render_sidebar", "progress", "_apply_draft_queue",
                    "render_outline", "render_editor">>

\* The calls of main() in order.
MainOrder == <<"init_state", "_apply_draft_queue", "render_sidebar", "progress",
               "render_outline", "render_editor">>

Running(comp) == pc >= 1 /\ MainOrder[pc] = comp

\* pc after the component at pc returned normally.
NextPc == IF pc = Len(MainOrder) THEN 0 ELSE pc + 1

\* A component reads or writes the draft: noted when no drain has run yet.
Touch(comp) == earlyAccess' = IF drains = 0 THEN earlyAccess \cup {comp} ELSE earlyAccess

\* The script starts over: a widget interaction, or st.rerun().
StartRun(tr) ==
    /\ pc' = 1
    /\ trigger' = tr
    /\ drains' = 0
    /\ earlyAccess' = {}

\* The user edits the text area; the widget value is in session state before
\* the script runs.
UserEdit ==
    /\ UNCHANGED <<sugVars, qVars, args, inflight>>
    /\ pc = 0
    /\ ~use_chat_mode
    /\ \E d \in UserDrafts :
          /\ d # draft
          /\ draft' = d
          /\ baseDraft' = d
    /\ enqLog' = <<>>
    /\ StartRun([NoTrigger EXCEPT !.kind = "edit"])
    /\ ret' = [op |-> "edit", n |-> 0]
    /\ UNCHANGED <<queue, saved_versions, use_chat_mode, events, clock>>

\* st.toggle(key="use_chat_mode")
ToggleChatMode ==
    /\ UNCHANGED <<sugVars, qVars, args, inflight>>
    /\ pc = 0
    /\ use_chat_mode' = ~use_chat_mode
    /\ StartRun([NoTrigger EXCEPT !.kind = "toggle"])
    /\ ret' = [op |-> "toggle", n |-> 0]
    /\ UNCHANGED <<draft, queue, saved_versions, events, clock, baseDraft, enqLog>>

\* The user sends a line through st.chat_input.
ChatSubmit ==
    /\ UNCHANGED <<sugVars, qVars, args, inflight>>
    /\ pc = 0
    /\ use_chat_mode
    /\ Len(events) < MaxEvents
    /\ \E f \in ChatTexts :
          /\ Len(draft) + Len(Sep) + Len(f) <= MaxDraftLen
          /\ StartRun([NoTrigger EXCEPT !.kind = "chat", !.text = f])
    /\ ret' = [op |-> "chat_input", n |-> 0]
    /\ UNCHANGED <<draft, queue, saved_versions, use_chat_mode, events, clock,
                   baseDraft, enqLog>>

\* The user clicks an add button of a displayed suggestion.
ClickAdd ==
    /\ UNCHANGED <<sugVars, qVars, args, inflight>>
    /\ pc = 0
    /\ \E f \in AddTexts :
          /\ Len(draft) + Len(Sep) + Len(f) <= MaxDraftLen
          /\ StartRun([NoTrigger EXCEPT !.kind = "add", !.text = f])
    /\ ret' = [op |-> "add_button", n |-> 0]
    /\ UNCHANGED <<draft, queue, saved_versions, use_chat_mode, events, clock,
                   baseDraft, enqLog>>

\* A save that takes a snapshot of any draft, blank ones too.
HasContent_any(d) == TRUE

\* st.session_state.get("draft", "").strip() is not empty
HasContent(d) == Strip(d) # <<>>

\* _save_snapshot, the on_click callback of the save button: it runs before the
\* script does.
ClickSave ==
    /\ UNCHANGED <<sugVars, qVars, args, inflight>>
    /\ pc = 0
    /\ IF ~HasContent(draft)
       THEN UNCHANGED <<saved_versions, clock>>
       ELSE /\ Len(saved_versions) < MaxVersions
            /\ \E t \in {clock, clock + 1} :
                  /\ t <= MaxClock
                  /\ clock' = t
                  /\ saved_versions' = Append(saved_versions, [t |-> t, text |-> draft])
    /\ StartRun([NoTrigger EXCEPT !.kind = "save"])
    /\ ret' = [op |-> "_save_snapshot", n |-> 0]
    /\ UNCHANGED <<draft, queue, use_chat_mode, events, baseDraft, enqLog>>

\* The user clicks the revert button with version idx selected.
ClickRevert ==
    /\ UNCHANGED <<sugVars, qVars, args, inflight>>
    /\ pc = 0
    /\ \E i \in 1..Len(saved_versions) :
          StartRun([NoTrigger EXCEPT !.kind = "revert", !.idx = i])
    /\ ret' = [op |-> "revert_button", n |-> 0]
    /\ UNCHANGED <<draft, queue, saved_versions, use_chat_mode, events, clock,
                   baseDraft, enqLog>>

\* The user clicks the activity-log button of the sidebar.
ClickLog ==
    /\ UNCHANGED <<sugVars, qVars, args, inflight>>
    /\ pc = 0
    /\ StartRun([NoTrigger EXCEPT !.kind = "log"])
    /\ ret' = [op |-> "log_button", n |-> 0]
    /\ UNCHANGED <<draft, queue, saved_versions, use_chat_mode, events, clock,
                   baseDraft, enqLog>>

\* init_state(): every default is already in session state.
RunInitState ==
    /\ UNCHANGED <<sugVars, qVars, args, inflight>>
    /\ Running("init_state")
    /\ pc' = NextPc
    /\ ret' = [op |-> "init_state", n |-> 0]
    /\ UNCHANGED <<draft, queue, saved_versions, use_chat_mode, events, clock, trigger,
                   drains, earlyAccess, baseDraft, enqLog>>

\* A drain that reads the queue and leaves it in the session state.
QueueAfterDrain_keep(q) == q

\* st.session_state.pop("_draft_append_queue", []): the key is removed.
QueueAfterDrain(q) == <<>>

\* What _apply_draft_queue does to the session state.
ApplyDraftQueue ==
    /\ draft' = DraftAfterDrain(draft, queue)
    /\ queue' = QueueAfterDrain(queue)
    /\ ret' = [op |-> "_apply_draft_queue", n |-> Len(queue)]

RunApplyDraftQueue ==
    /\ UNCHANGED <<sugVars, qVars, args, inflight>>
    /\ Running("_apply_draft_queue")
    /\ ApplyDraftQueue
    /\ drains' = drains + 1
    /\ pc' = NextPc
    /\ UNCHANGED <<saved_versions, use_chat_mode, events, clock, trigger, earlyAccess,
                   baseDraft, enqLog>>

\* render_sidebar(): the draft is read for the activity log download.
RunRenderSidebar ==
    /\ UNCHANGED <<sugVars, qVars, args, inflight>>
    /\ Running("render_sidebar")
    /\ IF trigger.kind = "log" THEN Touch("render_sidebar") ELSE UNCHANGED earlyAccess
    /\ pc' = NextPc
    /\ ret' = [op |-> "render_sidebar", n |-> 0]
    /\ UNCHANGED <<draft, queue, saved_versions, use_chat_mode, events, clock, trigger,
                   drains, baseDraft, enqLog>>

\* The progress bar of main() reads the draft.
RunProgress ==
    /\ UNCHANGED <<sugVars, qVars, args, inflight>>
    /\ Running("progress")
    /\ Touch("progress")
    /\ pc' = NextPc
    /\ ret' = [op |-> "progress", n |-> 0]
    /\ UNCHANGED <<draft, queue, saved_versions, use_chat_mode, events, clock, trigger,
                   drains, baseDraft, enqLog>>

RunRenderOutline ==
    /\ UNCHANGED <<sugVars, qVars, args, inflight>>
    /\ Running("render_outline")
    /\ pc' = NextPc
    /\ ret' = [op |-> "render_outline", n |-> 0]
    /\ UNCHANGED <<draft, queue, saved_versions, use_chat_mode, events, clock, trigger,
                   drains, earlyAccess, baseDraft, enqLog>>

\* _queue_append(text) called from render_editor: the script ends with st.rerun()
\* when the text is accepted, and goes on when it is empty.
QueueAppendInEditor(text) ==
    /\ queue' = QueueAfterAppend(queue, text)
    /\ IF text = <<>>
       THEN /\ pc' = NextPc
            /\ UNCHANGED <<trigger, drains, enqLog>>
            /\ Touch("render_editor")
       ELSE /\ enqLog' = Append(enqLog, text)
            /\ StartRun(NoTrigger)

\* render_editor(): the editor or the chat input, the suggestion tabs, the
\* quality panel and the snapshot bar.
RunRenderEditor ==
    /\ UNCHANGED <<sugVars, qVars, args, inflight>>
    /\ Running("render_editor")
    /\ ret' = [op |-> "render_editor", n |-> 0]
    /\ CASE trigger.kind = "chat" /\ use_chat_mode /\ Strip(trigger.text) # <<>> ->
              /\ events' = Append(events, [kind |-> "draft_appended",
                                           payload |-> Len(trigger.text)])
              /\ QueueAppendInEditor(trigger.text)
              /\ UNCHANGED <<draft, saved_versions, use_chat_mode, clock, baseDraft>>
         [] trigger.kind = "add" ->
              /\ QueueAppendInEditor(trigger.text)
              /\ UNCHANGED <<draft, saved_versions, use_chat_mode, events, clock,
                             baseDraft>>
         [] trigger.kind = "revert" ->
              /\ draft' = saved_versions[trigger.idx].text
              /\ baseDraft' = saved_versions[trigger.idx].text
              /\ enqLog' = <<>>
              /\ StartRun(NoTrigger)
              /\ UNCHANGED <<queue, saved_versions, use_chat_mode, events, clock>>
         [] OTHER ->
              /\ Touch("render_editor")
              /\ pc' = NextPc
              /\ UNCHANGED <<draft, queue, saved_versions, use_chat_mode, events, clock,
                             trigger, drains, baseDraft, enqLog>>

Init ==
    /\ draft = <<>>
    /\ queue = <<>>
    /\ saved_versions = <<>>
    /\ use_chat_mode = FALSE
    /\ events = <<>>
    /\ clock = 0
    /\ pc = 1
    /\ trigger = NoTrigger
    /\ drains = 0
    /\ earlyAccess = {}
    /\ baseDraft = <<>>
    /\ enqLog = <<>>
    /\ ret = [op |-> "none", n |-> 0]
    /\ n_sugs = 3
    /\ focus_kw = <<>>
    /\ ai_suggestions_cache = <<>>
    /\ apiLog = <<>>
    /\ sugCalls = 0
    /\ question_history = <<>>
    /\ question_nonce = 0
    /\ qAnswered = 0
    /\ gq = GqIdle
    /\ args = NoArgs
    /\ inflight = NoCalls

Next ==
    \/ UserEdit
    \/ ToggleChatMode
    \/ ChatSubmit
    \/ ClickAdd
    \/ ClickSave
    \/ ClickRevert
    \/ ClickLog
    \/ RunInitState
    \/ RunApplyDraftQueue
    \/ RunRenderSidebar
    \/ RunProgress
    \/ RunRenderOutline
    \/ RunRenderEditor

Spec == Init /\ [][Next]_vars

----------------------------------------------------------------------------
\* _apply_draft_queue as a function of the draft and the pending queue.

DrainDrafts == { <<>>, <<"x">>, <<" ">>, <<" ", "x">>, <<"x", "\n">>, <<"x", " ", "y">> }

DrainFrags == { <<"A">>, <<"B">>, <<"C">>, <<"A", " ">>, <<" ", "B">> }

DrainQueues == UNION { [1..k -> DrainFrags] : k \in 0..MaxQueue }

InitDrain ==
    /\ draft \in DrainDrafts
    /\ queue \in DrainQueues
    /\ saved_versions = <<>>
    /\ use_chat_mode = FALSE
    /\ events = <<>>
    /\ clock = 0
    /\ pc = 0
    /\ trigger = NoTrigger
    /\ drains = 0
    /\ earlyAccess = {}
    /\ baseDraft = draft
    /\ enqLog = queue
    /\ ret = [op |-> "none", n |-> 0]
    /\ n_sugs = 3
    /\ focus_kw = <<>>
    /\ ai_suggestions_cache = <<>>
    /\ apiLog = <<>>
    /\ sugCalls = 0
    /\ question_history = <<>>
    /\ question_nonce = 0
    /\ qAnswered = 0
    /\ gq = GqIdle
    /\ args = NoArgs
    /\ inflight = NoCalls

CallApplyDraftQueue ==
    /\ UNCHANGED <<sugVars, qVars, args, inflight>>
    /\ ret.op = "none"
    /\ ApplyDraftQueue
    /\ UNCHANGED <<saved_versions, use_chat_mode, events, clock, pc, trigger, drains,
                   earlyAccess, baseDraft, enqLog>>

NextDrain == CallApplyDraftQueue

SpecDrain == InitDrain /\ [][NextDrain]_vars

----------------------------------------------------------------------------
\* Claims about the draft queue.

RECURSIVE SumLen(_)
SumLen(frs) == IF frs = <<>> THEN 0 ELSE Len(Head(frs)) + SumLen(Tail(frs))

StripAll(frs) == [i \in 1..Len(frs) |-> Strip(frs[i])]

\* Every fragment of frs occupies its own place in s, in the order of frs.
OccursInOrder(frs, s) ==
    \E pos \in [1..Len(frs) -> 1..(Len(s) + 1)] :
        /\ \A i \in 1..Len(frs) :
              /\ pos[i] + Len(frs[i]) - 1 <= Len(s)
              /\ SubSeq(s, pos[i], pos[i] + Len(frs[i]) - 1) = frs[i]
        /\ \A i \in 1..(Len(frs) - 1) : pos[i] + Len(frs[i]) <= pos[i + 1]

\* The draft grew by no more than one copy of each fragment and its separator.
NoDuplicate == Len(draft) <= Len(baseDraft) + SumLen(enqLog) + Len(Sep) * Len(enqLog)

JustDrained == ret.op = "_apply_draft_queue"

\* C1 as stated: after a drain every fragment _queue_append accepted is in the
\* draft as it was passed, once, in the order of enqueueing, and none is pending.
C1_FragmentsVerbatim ==
    JustDrained =>
        /\ queue = <<>>
        /\ OccursInOrder(enqLog, draft)
        /\ NoDuplicate

\* C1 amended: after a drain every fragment _queue_append accepted is in the
\* draft without its leading and trailing whitespace, once, in the order of
\* enqueueing, and none is pending.
C1_FragmentsStripped ==
    JustDrained =>
        /\ queue = <<>>
        /\ OccursInOrder(StripAll(enqLog), draft)
        /\ NoDuplicate

\* Two fragments of successive turns, the second just applied by a drain.
C1_Witness ==
    /\ JustDrained
    /\ ret.n >= 1
    /\ Len(enqLog) >= 2
    /\ pc > 0

\* The draft the claim describes: a blank line before a fragment exactly when
\* the running draft is not empty, nothing else changed.
RECURSIVE PlainConcat(_, _)
PlainConcat(d, frs) ==
    IF frs = <<>> THEN d
    ELSE PlainConcat(d \o (IF d # <<>> THEN Sep ELSE <<>>) \o Head(frs), Tail(frs))

\* Sep and the fragments from the second on, each without trailing whitespace.
RECURSIVE TailJoin(_)
TailJoin(frs) ==
    IF frs = <<>> THEN <<>> ELSE Sep \o RStrip(Head(frs)) \o TailJoin(Tail(frs))

HasText(s) == \E i \in 1..Len(s) : s[i] \notin Whitespace

\* The draft of the amended claim: the blank line before the first fragment
\* depends on the draft holding a non-whitespace character, and the edges of
\* the running draft are stripped after every fragment.
StrippedConcat(d, frs) ==
    IF frs = <<>> THEN d
    ELSE Strip(d \o (IF HasText(d) THEN Sep ELSE <<>>) \o Head(frs)) \o TailJoin(Tail(frs))

\* C2 as stated: the drain sets the draft to d followed by the fragments in FIFO
\* order, a blank line before a fragment exactly when the running draft is
\* non-empty, nothing else of d changed, and empties the queue.
C2_DrainPlain ==
    JustDrained => (queue = <<>> /\ draft = PlainConcat(baseDraft, enqLog))

\* C2 amended: the drain sets the draft to d followed by the fragments in FIFO
\* order, a blank line before a fragment exactly when the running draft holds a
\* non-whitespace character, leading and trailing whitespace of the running
\* draft removed after every fragment, and empties the queue.
C2_DrainStripped ==
    JustDrained => (queue = <<>> /\ draft = StrippedConcat(baseDraft, enqLog))

\* Queue [A, B, C] drained into the empty draft gives "A\n\nB\n\nC".
C2_Witness ==
    /\ JustDrained
    /\ baseDraft = <<>>
    /\ enqLog = << <<"A">>, <<"B">>, <<"C">> >>
    /\ draft = <<"A", "\n", "\n", "B", "\n", "\n", "C">>

\* The components of main() that read or write the draft.
DraftComponents == {"render_sidebar", "progress", "render_editor"}

\* C3: in every execution of main _apply_draft_queue runs exactly once, and no
\* other component has read or written the draft before it.
C3_DrainOnceFirst ==
    /\ earlyAccess = {}
    /\ drains <= 1
    /\ (pc = 0 \/ (pc >= 1 /\ MainOrder[pc] \in DraftComponents)) => drains = 1

\* A run of main that ended after the drain applied a fragment and the other
\* components read the draft.
C3_Witness ==
    /\ pc = 0
    /\ drains = 1
    /\ enqLog # <<>>
    /\ draft # <<>>

----------------------------------------------------------------------------
\* generate_ai_suggestions and its cache.

Min(a, b) == IF a <= b THEN a ELSE b

Max(a, b) == IF a >= b THEN a ELSE b

\* s[:k]
Prefix(s, k) == SubSeq(s, 1, Min(k, Len(s)))

\* s[-k:]
Suffix(s, k) == SubSeq(s, Max(1, Len(s) - k + 1), Len(s))

\* The truncation windows of the cache key.
KeyBookTextLen == 800
KeyDraftLen == 500
KeyBookIndexLen == 1200

\* A response line is kept when it is longer than this.
MinLineLen == 8

\* A dict is the sequence of its <<key, value>> items in insertion order; the
\* keys are distinct.

\* The keys of the outline in the order of str comparison.
OutlineKeysSorted == <<"body", "concl", "intro">>

KeyRank(k) == CHOOSE i \in 1..Len(OutlineKeysSorted) : OutlineKeysSorted[i] = k

\* The items left in insertion order, as json.dumps does without sort_keys.
SortItems_asis(d) == d

\* sorted(d.items()), what json.dumps(..., sort_keys=True) iterates over.
SortItems(d) ==
    [i \in 1..Len(d) |->
        d[CHOOSE j \in 1..Len(d) :
            Cardinality({m \in 1..Len(d) : KeyRank(d[m][1]) < KeyRank(d[j][1])}) = i - 1]]

\* The JSON text of a str: quoted, with quote, backslash and newline escaped
\* (ensure_ascii=False leaves every other character as it is).
RECURSIVE JsonEscape(_)
JsonEscape(s) ==
    IF s = <<>> THEN <<>>
    ELSE (CASE Head(s) = "\"" -> <<"\\", "\"">>
            [] Head(s) = "\\" -> <<"\\", "\\">>
            [] Head(s) = "\n" -> <<"\\", "n">>
            [] OTHER -> <<Head(s)>>) \o JsonEscape(Tail(s))

JsonString(s) == <<"\"">> \o JsonEscape(s) \o <<"\"">>

\* "key": "value", joined by ", ". A key is one symbol.
RECURSIVE JsonItems(_)
JsonItems(d) ==
    IF d = <<>> THEN <<>>
    ELSE JsonString(<<d[1][1]>>) \o <<":", " ">> \o JsonString(d[1][2])
         \o (IF Len(d) > 1 THEN <<",", " ">> ELSE <<>>) \o JsonItems(Tail(d))

\* json.dumps(d, ensure_ascii=False, sort_keys=True) of a dict of str.
JsonDumpsSorted(d) == <<"{">> \o JsonItems(SortItems(d)) \o <<"}">>

\* Session fields the model holds fixed: no book is loaded or indexed.
BookTitle == <<>>
BookText == <<>>
BookIndex == <<>>
Outline == << <<"intro", <<>>>>, <<"body", <<>>>>, <<"concl", <<>>>> >>

Blocks == {"intro", "body", "concl"}

\* The values the model gives the suggestion count slider (range 1..5).
SugCounts == {1, 3, 5}

\* ctx as render_suggestion_block builds it.
SessionContext ==
    [book_title |-> BookTitle, book_text |-> BookText, outline |-> Outline,
     draft |-> draft]

\* The key fields with the book text, the draft and the book index in full.
KeyFields_whole(context, block, n, kw, book_index) ==
    [book_title |-> context.book_title,
     book_text |-> context.book_text,
     outline |-> JsonDumpsSorted(context.outline),
     draft |-> context.draft,
     block |-> block,
     n |-> n,
     focus_kw |-> kw,
     book_index |-> book_index]

\* key_fields of generate_ai_suggestions, kw and book_index being the session's
\* focus_kw and book_index. _stable_cache_key hashes their JSON text; the
\* digest is taken to be injective, so the key is the fields.
KeyFields(context, block, n, kw, book_index) ==
    [book_title |-> context.book_title,
     book_text |-> Prefix(context.book_text, KeyBookTextLen),
     outline |-> JsonDumpsSorted(context.outline),
     draft |-> Suffix(context.draft, KeyDraftLen),
     block |-> block,
     n |-> n,
     focus_kw |-> kw,
     book_index |-> Prefix(book_index, KeyBookIndexLen)]

\* cache_key of generate_ai_suggestions in the session of the model.
CacheKey(context, block, n) == KeyFields(context, block, n, focus_kw, BookIndex)

\* A store that keeps only the new entry.
CacheStore_only(cache, key, lines) == (key :> lines)

\* cache[cache_key] = lines
CacheStore(cache, key, lines) == (key :> lines) @@ cache

\* A lookup that never finds the key.
CacheHit_never(cache, key) == FALSE

\* cache_key in cache
CacheHit(cache, key) == key \in DOMAIN cache

\* str.split("\n")
RECURSIVE SplitLines(_)
SplitLines(s) ==
    IF \A i \in 1..Len(s) : s[i] # "\n" THEN <<s>>
    ELSE LET k == CHOOSE i \in 1..Len(s) :
                      s[i] = "\n" /\ \A j \in 1..(i - 1) : s[j] # "\n"
         IN <<SubSeq(s, 1, k - 1)>> \o SplitLines(SubSeq(s, k + 1, Len(s)))

\* str.lstrip(chars)
RECURSIVE LStripChars(_, _)
LStripChars(s, chars) ==
    IF s = <<>> THEN s
    ELSE IF Head(s) \in chars THEN LStripChars(Tail(s), chars) ELSE s

\* str.rstrip(chars)
RECURSIVE RStripChars(_, _)
RStripChars(s, chars) ==
    IF s = <<>> THEN s
    ELSE IF s[Len(s)] \in chars THEN RStripChars(SubSeq(s, 1, Len(s) - 1), chars) ELSE s

Digits == {"0", "1", "2", "3", "4", "5", "6", "7", "8", "9"}

\* lstrip("0123456789.- ")
SuggestionMarkers == Digits \cup {".", "-", " "}

\* line.strip().lstrip("0123456789.- ").strip()
CleanSuggestionLine(line) == Strip(LStripChars(Strip(line), SuggestionMarkers))

\* The loop over the response lines: the cleaned lines that are kept.
RECURSIVE KeptLines(_)
KeptLines(ls) ==
    IF ls = <<>> THEN <<>>
    ELSE LET c == CleanSuggestionLine(Head(ls)) IN
         (IF c # <<>> /\ Len(c) > MinLineLen THEN <<c>> ELSE <<>>) \o KeptLines(Tail(ls))

\* seq[-n:] for n >= 1: the last n instead of the first.
Take_last(seq, n) == SubSeq(seq, Max(1, Len(seq) - n + 1), Len(seq))

\* seq[:n]
Take(seq, n) == SubSeq(seq, 1, Min(n, Len(seq)))

\* lines[:n] of generate_ai_suggestions for a response text.
SuggestionLines(text, n) == Take(KeptLines(SplitLines(Strip(text))), n)

\* The fixed fallback sentences, one symbol a sentence.
FallbackPool(block) ==
    CASE block = "intro" -> << <<"intro1">>, <<"intro2">>, <<"intro3">> >>
      [] block = "body" -> << <<"body1">>, <<"body2">>, <<"body3">> >>
      [] block = "concl" -> << <<"concl1">>, <<"concl2">>, <<"concl3">> >>

\* Sampling with replacement, as random.choices would.
FallbackSamples_replace(block, n) ==
    LET pool == FallbackPool(block)
        k == Min(n, Len(pool))
    IN { [i \in 1..k |-> pool[f[i]]] : f \in [1..k -> 1..Len(pool)] }

\* What random.sample(fallback[block], min(n, len(fallback[block]))) can return.
FallbackSamples(block, n) ==
    LET pool == FallbackPool(block)
        k == Min(n, Len(pool))
    IN { [i \in 1..k |-> pool[f[i]]] :
           f \in { g \in [1..k -> 1..Len(pool)] :
                     \A i, j \in 1..k : g[i] = g[j] => i = j } }

\* What call_openai_api can return: None, or a text.
NullResponse == [null |-> TRUE, text |-> <<>>]

TextResponse(t) == [null |-> FALSE, text |-> t]

\* if response:
Truthy(resp) == ~resp.null /\ resp.text # <<>>

SuggestionResponses ==
    { NullResponse,
      TextResponse(<<>>),
      TextResponse(<<"a", "b", "c", "d", "e", "f", "g", "h">>),
      TextResponse(<<"1", ".", " ", "a", "b", "c", "d", "e", "f", "g", "h", "i", "\n", " ", "-", " ", "b", "c", "d", "e", "f", "g", "h", "i", "j", " ", "\n">>),
      TextResponse(<<"1", ".", " ", "a", "b", "c", "d", "e", "f", "g", "h", "i", "\n", "2", ".", " ", "b", "c", "d", "e", "f", "g", "h", "i", "j", "\n", "\n", "3", ".", " ", "c", "d", "e", "f", "g", "h", "i", "j", "k", "\n", "4", ".", " ", "d", "e", "f", "g", "h", "i", "j", "k", "l", "\n", "5", ".", " ", "e", "f", "g", "h", "i", "j", "k", "l", "m">>) }

\* Bound on the calls of generate_ai_suggestions.
MaxSugCalls == 2

\* st.sidebar.slider("AI 제안 개수", 1, 5, ...)
SetNSugs ==
    /\ pc = 0
    /\ \E n \in SugCounts : n # n_sugs /\ n_sugs' = n
    /\ ret' = [op |-> "slider", n |-> 0]
    /\ UNCHANGED <<draft, queue, saved_versions, use_chat_mode, events, clock, pc,
                   trigger, drains, earlyAccess, baseDraft, enqLog,
                   ai_suggestions_cache, apiLog, sugCalls, qVars, args, inflight>>

\* generate_ai_suggestions(ctx, block, n_sugs), called from a suggestion button.
GenerateAiSuggestions ==
    /\ pc = 0
    /\ sugCalls < MaxSugCalls
    /\ sugCalls' = sugCalls + 1
    /\ \E block \in Blocks :
        LET n == n_sugs
            cache_key == CacheKey(SessionContext, block, n)
        IN IF CacheHit(ai_suggestions_cache, cache_key)
           THEN /\ ret' = [op |-> "generate_ai_suggestions", n |-> n, key |-> cache_key,
                           val |-> ai_suggestions_cache[cache_key], called |-> FALSE,
                           resp |-> NullResponse]
                /\ UNCHANGED <<ai_suggestions_cache, apiLog, events>>
           ELSE \E response \in SuggestionResponses :
                /\ apiLog' = Append(apiLog, cache_key)
                /\ IF Truthy(response)
                   THEN LET lines == SuggestionLines(response.text, n) IN
                        /\ ai_suggestions_cache' =
                               CacheStore(ai_suggestions_cache, cache_key, lines)
                        /\ events' = Append(events,
                               [kind |-> "ai_suggestions_generated",
                                payload |-> <<block, Len(lines)>>])
                        /\ ret' = [op |-> "generate_ai_suggestions", n |-> n,
                                   key |-> cache_key, val |-> lines, called |-> TRUE,
                                   resp |-> response]
                   ELSE \E fb \in FallbackSamples(block, n) :
                        /\ ret' = [op |-> "generate_ai_suggestions", n |-> n,
                                   key |-> cache_key, val |-> fb, called |-> TRUE,
                                   resp |-> response]
                        /\ UNCHANGED <<ai_suggestions_cache, events>>
    /\ UNCHANGED <<draft, queue, saved_versions, use_chat_mode, clock, pc, trigger,
                   drains, earlyAccess, baseDraft, enqLog, n_sugs, qVars, args, inflight>>

InitSug ==
    /\ draft = <<>>
    /\ queue = <<>>
    /\ saved_versions = <<>>
    /\ use_chat_mode = FALSE
    /\ events = <<>>
    /\ clock = 0
    /\ pc = 0
    /\ trigger = NoTrigger
    /\ drains = 0
    /\ earlyAccess = {}
    /\ baseDraft = <<>>
    /\ enqLog = <<>>
    /\ ret = [op |-> "none", n |-> 0]
    /\ n_sugs = 3
    /\ focus_kw = <<>>
    /\ ai_suggestions_cache = <<>>
    /\ apiLog = <<>>
    /\ sugCalls = 0
    /\ question_history = <<>>
    /\ question_nonce = 0
    /\ qAnswered = 0
    /\ gq = GqIdle
    /\ args = NoArgs
    /\ inflight = NoCalls

NextSug ==
    \/ SetNSugs
    \/ GenerateAiSuggestions

SpecSug == InitSug /\ [][NextSug]_vars

\* C4 as stated: the generation client is invoked at most once for a key.
C4_OneGenerationPerKey ==
    \A i, j \in 1..Len(apiLog) : apiLog[i] = apiLog[j] => i = j

\* C5: a call whose key is in the cache returns the stored list, and changes
\* neither the cache nor the events, and does not invoke the client.
C5_HitHasNoEffect ==
    [][(sugCalls' = sugCalls + 1 /\ ret'.key \in DOMAIN ai_suggestions_cache) =>
          /\ ret'.val = ai_suggestions_cache[ret'.key]
          /\ ai_suggestions_cache' = ai_suggestions_cache
          /\ events' = events
          /\ apiLog' = apiLog]_vars

\* A call answered from the cache with a stored list of suggestions.
C5_Witness ==
    /\ ret.op = "generate_ai_suggestions"
    /\ ~ret.called
    /\ ret.key \in DOMAIN ai_suggestions_cache
    /\ ret.val = ai_suggestions_cache[ret.key]
    /\ Len(ret.val) >= 2

\* C10 as stated: the caller never receives, and the cache never stores, fewer
\* than min(n, pool size) suggestions.
C10_NeverFewerThanRequested ==
    /\ \A key \in DOMAIN ai_suggestions_cache :
          Len(ai_suggestions_cache[key]) >= Min(key.n, Len(FallbackPool(key.block)))
    /\ ret.op = "generate_ai_suggestions" =>
          Len(ret.val) >= Min(ret.n, Len(FallbackPool(ret.key.block)))

----------------------------------------------------------------------------
\* generate_guiding_questions and the question history.
\*
\* A question is a sequence of symbols; "Why", "How" and "If" stand for the
\* lead-in words of starters, "bullet" and "ellipsis" for the bullet and the
\* ellipsis character, "b1".."b3", "t1", "t2" and "q1".."q4" for stretches of
\* text without whitespace, digits or punctuation at their ends.

\* The retained size of question_history.
HistCap == 50

\* The window of the history a candidate is compared with: hist[-100:].
HistWindow == 100

\* The number of questions of a batch.
QuestionCount == 3

\* Bounds on the calls of generate_guiding_questions, and on those among them
\* that get a text from the model.
MaxNonce == 18
MaxAnswered == 2

\* base, the questions of the path without a response.
BaseQuestions ==
    << <<"Why", " ", "b1", "?">>, <<"How", " ", "b2", "?">>, <<"If", " ", "b3", "?">> >>

starters == <<"Why", "How", "If">>

\* f"{s} ...{kw_part} ...?" with kw_part = f" '{focus_kw}'" if focus_kw else ""
Filler(s, kw) ==
    <<s, " ", "t1">> \o (IF kw # <<>> THEN <<" ", "'">> \o kw \o <<"'">> ELSE <<>>)
        \o <<" ", "t2", "?">>

\* lstrip("0123456789.-•* ")
QuestionMarkers == Digits \cup {".", "-", "bullet", "*", " "}

\* A normalisation that leaves the end of the line as it is.
NormalizeQuestion_asis(ln) == Strip(LStripChars(ln, QuestionMarkers))

\* The question made of a response line: markers stripped, "?" forced.
NormalizeQuestion(ln) ==
    LET q == Strip(LStripChars(ln, QuestionMarkers)) IN
    IF q # <<>> /\ q[Len(q)] = "?" THEN q
    ELSE RStripChars(q, {".", "!", "ellipsis"}) \o <<"?">>

\* raw_lines: the stripped non-blank lines of the response.
RECURSIVE NonBlank(_)
NonBlank(ls) ==
    IF ls = <<>> THEN <<>>
    ELSE (IF Strip(Head(ls)) # <<>> THEN <<Strip(Head(ls))>> ELSE <<>>)
             \o NonBlank(Tail(ls))

RawLines(text) == NonBlank(SplitLines(text))

Elems(seq) == {seq[i] : i \in 1..Len(seq)}

\* The loop over raw_lines: skips what is in seen, stops at three questions.
RECURSIVE Dedupe(_, _, _)
Dedupe(ls, cleaned, seen) ==
    IF ls = <<>> \/ Len(cleaned) = QuestionCount
    THEN [cleaned |-> cleaned, seen |-> seen]
    ELSE LET q == NormalizeQuestion(Head(ls)) IN
         IF q \in seen THEN Dedupe(Tail(ls), cleaned, seen)
         ELSE Dedupe(Tail(ls), Append(cleaned, q), seen \cup {q})

\* The history kept on the path with a response: (hist + cleaned)[:50].
TrimAnswered(h) == Prefix(h, HistCap)

\* The history kept whole.
TrimNull_whole(h) == h

\* The history kept on the path without a response: (hist + base)[-50:].
TrimNull(h) == Suffix(h, HistCap)

\* The keywords of the book index the user can click.
IndexedKeywords == { <<"k">> }

QuestionResponses ==
    { NullResponse,
      TextResponse(<<>>),
      TextResponse(<<"1", ".", " ", "Why", " ", "q1", "?", "\n",
                     "How", " ", "q2", ".", "\n",
                     "*", " ", "If", " ", "q3", "!", "\n",
                     "Why", " ", "q4", "?">>),
      TextResponse(<<"Why", " ", "q1">>),
      TextResponse(<<"Why", " ", "q1", "?", "\n", " ", "\n",
                     "Why", " ", "q1", ".", "\n", "-", " ">>),
      TextResponse(<<"Why", " ", "q5", "?", "\n", "Why", " ", "q6", "?", "\n",
                     "How", " ", "q7", "?">>) }

\* render_keyword_pills: a click on a keyword.
SelectKeyword ==
    /\ pc = 0
    /\ gq.pc = "idle"
    /\ \E kw \in IndexedKeywords : kw # focus_kw /\ focus_kw' = kw
    /\ ret' = [op |-> "keyword", n |-> 0]
    /\ UNCHANGED <<draft, queue, saved_versions, use_chat_mode, events, clock, pc,
                   trigger, drains, earlyAccess, baseDraft, enqLog, sugVars, args, inflight,
                   question_history, question_nonce, qAnswered, gq>>

\* generate_guiding_questions up to the filler loop; the whole call when the
\* client gives no response.
GQ_Call ==
    /\ pc = 0
    /\ gq.pc = "idle"
    /\ question_nonce < MaxNonce
    /\ question_nonce' = question_nonce + 1
    /\ \E resp \in QuestionResponses :
        LET hist == question_history IN
        IF ~Truthy(resp)
        THEN /\ question_history' = TrimNull(hist \o BaseQuestions)
             /\ ret' = [op |-> "generate_guiding_questions", val |-> BaseQuestions,
                        hist |-> hist, answered |-> FALSE]
             /\ UNCHANGED <<qAnswered, gq>>
        ELSE LET d == Dedupe(RawLines(resp.text), <<>>, Elems(Suffix(hist, HistWindow)))
             IN /\ qAnswered < MaxAnswered
                /\ qAnswered' = qAnswered + 1
                /\ gq' = [pc |-> "while", hist |-> hist, cleaned |-> d.cleaned,
                          seen |-> d.seen]
                /\ ret' = [op |-> "call_openai_api", n |-> 0]
                /\ UNCHANGED question_history
    /\ UNCHANGED <<draft, queue, saved_versions, use_chat_mode, events, clock, pc,
                   trigger, drains, earlyAccess, baseDraft, enqLog, sugVars, args, inflight, focus_kw>>

\* while len(cleaned) < 3: the test holds.
GQ_LoopEnter ==
    /\ gq.pc = "while"
    /\ Len(gq.cleaned) < QuestionCount
    /\ gq' = [gq EXCEPT !.pc = "body"]
    /\ UNCHANGED <<draft, queue, saved_versions, use_chat_mode, events, clock, pc,
                   trigger, drains, earlyAccess, baseDraft, enqLog, ret, sugVars, args, inflight,
                   focus_kw, question_history, question_nonce, qAnswered>>

\* The body of the filler loop.
GQ_FillBody ==
    /\ gq.pc = "body"
    /\ LET s == starters[(Len(gq.cleaned) % 3) + 1]
           filler == Filler(s, focus_kw)
       IN IF filler \notin gq.seen
          THEN gq' = [gq EXCEPT !.pc = "while",
                                !.cleaned = Append(gq.cleaned, filler),
                                !.seen = gq.seen \cup {filler}]
          ELSE gq' = [gq EXCEPT !.pc = "while"]
    /\ UNCHANGED <<draft, queue, saved_versions, use_chat_mode, events, clock, pc,
                   trigger, drains, earlyAccess, baseDraft, enqLog, ret, sugVars, args, inflight,
                   focus_kw, question_history, question_nonce, qAnswered>>

\* The loop is left: the history is extended and the questions are returned.
GQ_Return ==
    /\ gq.pc = "while"
    /\ Len(gq.cleaned) >= QuestionCount
    /\ question_history' = TrimAnswered(gq.hist \o gq.cleaned)
    /\ ret' = [op |-> "generate_guiding_questions", val |-> Take(gq.cleaned, 3),
               hist |-> gq.hist, answered |-> TRUE]
    /\ gq' = GqIdle
    /\ UNCHANGED <<draft, queue, saved_versions, use_chat_mode, events, clock, pc,
                   trigger, drains, earlyAccess, baseDraft, enqLog, sugVars, args, inflight,
                   focus_kw, question_nonce, qAnswered>>

NextQ ==
    \/ SelectKeyword
    \/ GQ_Call
    \/ GQ_LoopEnter
    \/ GQ_FillBody
    \/ GQ_Return

\* The session starts as for the suggestions: no run of main in progress.
SpecQ == InitSug /\ [][NextQ]_vars

\* A call in progress goes on executing.
SpecQFair ==
    /\ SpecQ
    /\ WF_vars(GQ_LoopEnter)
    /\ WF_vars(GQ_FillBody)
    /\ WF_vars(GQ_Return)

Returned == ret.op = "generate_guiding_questions"

EndsInQuestionMark(q) == q # <<>> /\ q[Len(q)] = "?"

\* C6: whenever generate_guiding_questions returns, it returns exactly 3
\* pairwise-distinct questions, each ending in "?".
C6_ThreeDistinctQuestions ==
    Returned =>
        /\ Len(ret.val) = 3
        /\ \A i, j \in 1..Len(ret.val) : ret.val[i] = ret.val[j] => i = j
        /\ \A i \in 1..Len(ret.val) : EndsInQuestionMark(ret.val[i])

\* A return on a non-empty history of a batch the loop completed with a filler,
\* its first question made of a line that did not end in "?".
C6_Witness ==
    /\ Returned
    /\ ret.answered
    /\ ret.hist # <<>>
    /\ ret.val[1] = <<"Why", " ", "q1", "?">>
    /\ ret.val[3] = Filler("If", focus_kw)

\* C7 as stated: no returned question is among the last 100 entries of the
\* history as it was before the call.
C7_NoneFromHistory ==
    Returned =>
        \A i \in 1..Len(ret.val) : ret.val[i] \notin Elems(Suffix(ret.hist, HistWindow))

\* C8 as stated: a call that has entered the filler loop returns.
C8_Terminates == (gq.pc # "idle") ~> (gq.pc = "idle")

\* C9 as stated: the new history is the old one followed by the returned
\* questions, only the oldest entries dropped to keep 50.
C9_HistoryKeepsNewest ==
    Returned => question_history = Suffix(ret.hist \o ret.val, HistCap)

----------------------------------------------------------------------------
\* The fallback of generate_ai_suggestions.

\* C11: when the client returns None, generate_ai_suggestions returns exactly
\* min(n, 3) pairwise distinct sentences, every one of them from the pool of
\* the requested block and none from the pool of another block.
C11_FallbackFromOwnPool ==
    (ret.op = "generate_ai_suggestions" /\ ret.called /\ ret.resp.null) =>
        /\ Len(ret.val) = Min(ret.n, 3)
        /\ \A i, j \in 1..Len(ret.val) : ret.val[i] = ret.val[j] => i = j
        /\ \A i \in 1..Len(ret.val) :
              /\ ret.val[i] \in Elems(FallbackPool(ret.key.block))
              /\ \A b \in Blocks \ {ret.key.block} :
                    ret.val[i] \notin Elems(FallbackPool(b))

\* The client returned None to a request for five sentences of the body.
C11_Witness ==
    /\ ret.op = "generate_ai_suggestions"
    /\ ret.called
    /\ ret.resp.null
    /\ ret.n = 5
    /\ ret.key.block = "body"
    /\ Len(ret.val) = 3

----------------------------------------------------------------------------
\* The cache key of generate_ai_suggestions, computed for two calls.

\* A session in which nothing has happened and main is not running.
IdleSession ==
    /\ draft = <<>>
    /\ queue = <<>>
    /\ saved_versions = <<>>
    /\ use_chat_mode = FALSE
    /\ events = <<>>
    /\ clock = 0
    /\ pc = 0
    /\ trigger = NoTrigger
    /\ drains = 0
    /\ earlyAccess = {}
    /\ baseDraft = <<>>
    /\ enqLog = <<>>
    /\ ret = [op |-> "none", n |-> 0]
    /\ n_sugs = 3
    /\ focus_kw = <<>>
    /\ ai_suggestions_cache = <<>>
    /\ apiLog = <<>>
    /\ sugCalls = 0
    /\ question_history = <<>>
    /\ question_nonce = 0
    /\ qAnswered = 0
    /\ gq = GqIdle

\* c repeated k times
Rep(c, k) == [i \in 1..k |-> c]

\* Book texts that agree or differ within and beyond the key window.
KeyBookTexts ==
    { Rep("t", KeyBookTextLen) \o <<"a">>,
      Rep("t", KeyBookTextLen) \o <<"b">>,
      Rep("t", KeyBookTextLen - 1) \o <<"a">> }

\* Drafts that agree or differ within and before the key window.
KeyDrafts ==
    { <<"a">> \o Rep("d", KeyDraftLen),
      <<"b">> \o Rep("d", KeyDraftLen),
      <<"a">> \o Rep("d", KeyDraftLen - 1) }

\* Book indexes that agree or differ within and beyond the key window.
KeyBookIndexes ==
    { Rep("i", KeyBookIndexLen) \o <<"a">>,
      Rep("i", KeyBookIndexLen) \o <<"b">>,
      Rep("i", KeyBookIndexLen - 1) \o <<"a">> }

\* Outline dicts: one mapping in three insertion orders, and another mapping.
KeyOutlines ==
    { << <<"intro", <<"x">>>>, <<"body", <<>>>>, <<"concl", <<"\"">>>> >>,
      << <<"concl", <<"\"">>>>, <<"body", <<>>>>, <<"intro", <<"x">>>> >>,
      << <<"body", <<>>>>, <<"intro", <<"x">>>>, <<"concl", <<"\"">>>> >>,
      << <<"intro", <<>>>>, <<"body", <<"x">>>>, <<"concl", <<"\"">>>> >> }

\* The inputs of one key computation: the arguments and the session fields read.
KeyCalls ==
    [context : [book_title : {<<"T">>}, book_text : KeyBookTexts,
                outline : KeyOutlines, draft : KeyDrafts],
     block : {"body"}, n : {3}, focus_kw : {<<"k">>}, book_index : KeyBookIndexes]

KeyOf(c) == KeyFields(c.context, c.block, c.n, c.focus_kw, c.book_index)

InitKey ==
    /\ IdleSession
    /\ inflight = NoCalls
    /\ args \in [op : {"cache_key"}, a : KeyCalls, b : KeyCalls]

\* The key is computed for both calls.
CallStableCacheKey ==
    /\ args.op = "cache_key"
    /\ ret.op = "none"
    /\ ret' = [op |-> "_stable_cache_key", a |-> KeyOf(args.a), b |-> KeyOf(args.b)]
    /\ UNCHANGED <<draft, queue, saved_versions, use_chat_mode, events, clock, pc,
                   trigger, drains, earlyAccess, baseDraft, enqLog, sugVars, qVars,
                   args, inflight>>

NextKey == CallStableCacheKey

SpecKey == InitKey /\ [][NextKey]_vars

KeysComputed == ret.op = "_stable_cache_key"

\* The mapping a dict holds, whatever the insertion order.
DictItems(d) == { d[i] : i \in 1..Len(d) }

\* C12: two calls with the same title, book text, outline mapping, draft,
\* block, n, focus keyword and book index get the same key, in whatever order
\* the keys of the outline were inserted.
C12_KeyIgnoresInsertionOrder ==
    (/\ KeysComputed
     /\ args.a.context.book_title = args.b.context.book_title
     /\ args.a.context.book_text = args.b.context.book_text
     /\ DictItems(args.a.context.outline) = DictItems(args.b.context.outline)
     /\ args.a.context.draft = args.b.context.draft
     /\ args.a.block = args.b.block
     /\ args.a.n = args.b.n
     /\ args.a.focus_kw = args.b.focus_kw
     /\ args.a.book_index = args.b.book_index)
    => ret.a = ret.b

\* Two calls whose outlines hold the same mapping inserted in different orders.
C12_Witness ==
    /\ KeysComputed
    /\ args.a.context.outline # args.b.context.outline
    /\ DictItems(args.a.context.outline) = DictItems(args.b.context.outline)
    /\ [args.a EXCEPT !.context.outline = <<>>] = [args.b EXCEPT !.context.outline = <<>>]
    /\ ret.a = ret.b

\* C13: calls whose book texts agree on the first 800 characters, whose drafts
\* agree on the last 500 and whose book indexes agree on the first 1200 get the
\* same key when title, outline, block, n and focus keyword are equal.
C13_KeyIsCoarse ==
    (/\ KeysComputed
     /\ args.a.context.book_title = args.b.context.book_title
     /\ args.a.context.outline = args.b.context.outline
     /\ args.a.block = args.b.block
     /\ args.a.n = args.b.n
     /\ args.a.focus_kw = args.b.focus_kw
     /\ Prefix(args.a.context.book_text, 800) = Prefix(args.b.context.book_text, 800)
     /\ Suffix(args.a.context.draft, 500) = Suffix(args.b.context.draft, 500)
     /\ Prefix(args.a.book_index, 1200) = Prefix(args.b.book_index, 1200))
    => ret.a = ret.b

\* An edit of the draft before its last 500 characters, with the same key.
C13_Witness ==
    /\ KeysComputed
    /\ Len(args.a.context.draft) > 500
    /\ args.a.context.draft # args.b.context.draft
    /\ Suffix(args.a.context.draft, 500) = Suffix(args.b.context.draft, 500)
    /\ args.a.context.book_text # args.b.context.book_text
    /\ args.a.book_index # args.b.book_index
    /\ ret.a = ret.b

----------------------------------------------------------------------------
\* The lines generate_ai_suggestions keeps of a response.

\* The positions of the lines of a text that survive the cleaning.
SurvivingLines(ls) ==
    { i \in 1..Len(ls) : Len(CleanSuggestionLine(ls[i])) > MinLineLen }

\* The first n surviving lines of a text, cleaned, in their order in the text.
FirstSurviving(text, n) ==
    LET ls == SplitLines(text)
        surv == SurvivingLines(ls)
        k == Min(n, Cardinality(surv))
    IN [j \in 1..k |->
          CleanSuggestionLine(
              ls[CHOOSE i \in surv : Cardinality({m \in surv : m < i}) = j - 1])]

\* The call returned and stored the first n surviving lines of the response.
KeepsFirstSurviving ==
    /\ ret.val = FirstSurviving(ret.resp.text, ret.n)
    /\ Len(ret.val) <= ret.n
    /\ ret.key \in DOMAIN ai_suggestions_cache
    /\ ai_suggestions_cache[ret.key] = ret.val

\* C14 as stated: for every response that is not None, the list returned and
\* cached is the first n surviving lines of the response in their order.
C14_FirstSurvivingOfNonNull ==
    (ret.op = "generate_ai_suggestions" /\ ret.called /\ ~ret.resp.null) =>
        KeepsFirstSurviving

\* C14, amended: for every response that is neither None nor the empty string,
\* the list returned and cached is the first n surviving lines of the response
\* in their order, at most n of them.
C14_FirstSurvivingOfNonEmpty ==
    (ret.op = "generate_ai_suggestions" /\ ret.called /\ ~ret.resp.null
       /\ ret.resp.text # <<>>) =>
        KeepsFirstSurviving

\* A response of five valid lines to a request for three: the first three.
C14_Witness ==
    /\ ret.op = "generate_ai_suggestions"
    /\ ret.called
    /\ ~ret.resp.null
    /\ ret.n = 3
    /\ Cardinality(SurvivingLines(SplitLines(ret.resp.text))) = 5
    /\ ret.val = << <<"a", "b", "c", "d", "e", "f", "g", "h", "i">>,
                    <<"b", "c", "d", "e", "f", "g", "h", "i", "j">>,
                    <<"c", "d", "e", "f", "g", "h", "i", "j", "k">> >>
    /\ ai_suggestions_cache[ret.key] = ret.val

----------------------------------------------------------------------------
\* detect_stage, the heuristic stage detector.
\*
\* A draft is a sequence of one-character symbols; the syllables of the body
\* phrases are written in Latin letters.

\* len(draft) below this is an introduction.
StageShortLen == 150

\* The phrases that indicate the body, in the order the code tries them.
BodyPhrases ==
    << <<"ga", "jang", " ", "in", "sang", " ", "gip", "eot", "deon">>,
       <<"gi", "eok", "e", " ", "nam", "neun">>,
       <<"neu", "kkyeot">>,
       <<"gyo", "hun">> >>

\* sub in s
Contains(s, sub) ==
    \E i \in 0..(Len(s) - Len(sub)) : SubSeq(s, i + 1, i + Len(sub)) = sub

\* A detector that lets a filled body section of the outline decide.
detect_stage_outline(d, outline) ==
    IF Strip(d) = <<>> THEN "intro"
    ELSE IF Len(d) < StageShortLen THEN "intro"
    ELSE IF \E i \in 1..Len(outline) : outline[i][1] = "body" /\ outline[i][2] # <<>>
         THEN "body"
    ELSE IF \E i \in 1..Len(BodyPhrases) : Contains(d, BodyPhrases[i]) THEN "body"
    ELSE "concl"

detect_stage(d, outline) ==
    IF Strip(d) = <<>> THEN "intro"
    ELSE IF Len(d) < StageShortLen THEN "intro"
    ELSE IF \E i \in 1..Len(BodyPhrases) : Contains(d, BodyPhrases[i]) THEN "body"
    ELSE "concl"

\* Drafts that are empty, blank, around the length threshold, with and without
\* a body phrase or a part of one.
StageDrafts ==
    { <<>>, <<" ">>, <<"\n", " ">>,
      Rep(" ", StageShortLen), Rep(" ", StageShortLen + 1),
      Rep("z", 1), Rep("z", StageShortLen - 1), Rep("z", StageShortLen),
      Rep("z", StageShortLen + 1),
      <<" ">> \o Rep("z", StageShortLen - 2) \o <<" ">>,
      <<" ">> \o Rep("z", StageShortLen - 3) \o <<" ">>,
      Rep("z", StageShortLen - 1) \o <<"neu">>,
      <<"gyo", "z", "hun">> \o Rep("z", StageShortLen),
      Rep(" ", StageShortLen) \o <<"gyo", "hun">> }
    \cup { BodyPhrases[i] \o Rep("z", StageShortLen - Len(BodyPhrases[i]))
             : i \in 1..Len(BodyPhrases) }
    \cup { Rep("z", StageShortLen - 1 - Len(BodyPhrases[i])) \o BodyPhrases[i]
             : i \in 1..Len(BodyPhrases) }
    \cup { Rep("z", StageShortLen) \o BodyPhrases[i] \o <<"z">>
             : i \in 1..Len(BodyPhrases) }

\* Outlines: empty, filled, in several insertion orders.
StageOutlines == KeyOutlines \cup { <<>>, Outline }

InitStage ==
    /\ IdleSession
    /\ inflight = NoCalls
    /\ args \in [op : {"detect_stage"}, draft : StageDrafts, outline : StageOutlines]

CallDetectStage ==
    /\ args.op = "detect_stage"
    /\ ret.op = "none"
    /\ ret' = [op |-> "detect_stage", val |-> detect_stage(args.draft, args.outline)]
    /\ UNCHANGED <<draft, queue, saved_versions, use_chat_mode, events, clock, pc,
                   trigger, drains, earlyAccess, baseDraft, enqLog, sugVars, qVars,
                   args, inflight>>

NextStage == CallDetectStage

SpecStage == InitStage /\ [][NextStage]_vars

\* The draft is empty, whitespace only, or shorter than 150 characters.
ShortDraft(d) == (\A i \in 1..Len(d) : d[i] \in Whitespace) \/ Len(d) < 150

\* The draft contains one of the body phrases.
HasBodyPhrase(d) ==
    \E i \in 1..Len(BodyPhrases), k \in 1..Len(d) :
        /\ k + Len(BodyPhrases[i]) - 1 <= Len(d)
        /\ \A m \in 1..Len(BodyPhrases[i]) : d[k + m - 1] = BodyPhrases[i][m]

\* C15: detect_stage returns one of intro, body, concl for every draft and
\* outline: intro for an empty, blank or short draft, otherwise body when the
\* draft contains a body phrase, otherwise concl, whatever the outline is.
C15_StageHeuristic ==
    ret.op = "detect_stage" =>
        /\ ret.val \in {"intro", "body", "concl"}
        /\ ret.val = (IF ShortDraft(args.draft) THEN "intro"
                      ELSE IF HasBodyPhrase(args.draft) THEN "body"
                      ELSE "concl")

\* A draft of 150 characters with a body phrase and a filled outline: body.
C15_Witness ==
    /\ ret.op = "detect_stage"
    /\ Len(args.draft) = 150
    /\ HasBodyPhrase(args.draft)
    /\ \E i \in 1..Len(args.outline) : args.outline[i][2] # <<>>
    /\ ret.val = "body"

----------------------------------------------------------------------------
\* call_openai_api: one attempt, and a retry after a TypeError.

\* What client.chat.completions.create followed by resp.choices[0].message.content
\* can do: give the content (a text or None), or raise. A response whose choices
\* is an empty list raises IndexError on [0]; one whose choices is None raises
\* TypeError. Every exception here is a subclass of Exception.
ApiOutcomes ==
    { [kind |-> "content", content |-> TextResponse(<<"r", "1">>)],
      [kind |-> "content", content |-> TextResponse(<<"r", "2">>)],
      [kind |-> "content", content |-> TextResponse(<<>>)],
      [kind |-> "content", content |-> NullResponse],
      [kind |-> "raise", exc |-> "TypeError"],
      [kind |-> "raise", exc |-> "APIError"],
      [kind |-> "raise", exc |-> "APITimeoutError"],
      [kind |-> "no_choices"],
      [kind |-> "choices_none"] }

\* The exception an outcome raises, "none" when it raises nothing.
Raised(o) ==
    CASE o.kind = "content" -> "none"
      [] o.kind = "raise" -> o.exc
      [] o.kind = "no_choices" -> "IndexError"
      [] o.kind = "choices_none" -> "TypeError"

Returns(v) == [raised |-> "none", val |-> v, error |-> "none"]

\* return None after st.error(msg)
ReturnsNoneAfter(msg) == [raised |-> "none", val |-> NullResponse, error |-> msg]

Propagates(exc) == [raised |-> exc, val |-> NullResponse, error |-> "none"]

\* The retry outside a try block of its own: what it raises leaves the function.
call_openai_api_bare(first, second) ==
    IF Raised(first) = "none" THEN Returns(first.content)
    ELSE IF Raised(first) = "TypeError"
         THEN IF Raised(second) = "none" THEN Returns(second.content)
              ELSE Propagates(Raised(second))
    ELSE ReturnsNoneAfter("api")

\* call_openai_api, first and second being the outcomes of the two attempts.
call_openai_api(first, second) ==
    IF Raised(first) = "none" THEN Returns(first.content)
    ELSE IF Raised(first) = "TypeError"
         THEN IF Raised(second) = "none" THEN Returns(second.content)
              ELSE ReturnsNoneAfter("compat")
    ELSE ReturnsNoneAfter("api")

InitApi ==
    /\ IdleSession
    /\ inflight = NoCalls
    /\ args \in [op : {"call_openai_api"}, first : ApiOutcomes, second : ApiOutcomes]

CallOpenaiApi ==
    /\ args.op = "call_openai_api"
    /\ ret.op = "none"
    /\ LET r == call_openai_api(args.first, args.second)
       IN ret' = [op |-> "call_openai_api", raised |-> r.raised, val |-> r.val,
                  error |-> r.error]
    /\ UNCHANGED <<draft, queue, saved_versions, use_chat_mode, events, clock, pc,
                   trigger, drains, earlyAccess, baseDraft, enqLog, sugVars, qVars,
                   args, inflight>>

NextApi == CallOpenaiApi

SpecApi == InitApi /\ [][NextApi]_vars

\* C16: whatever the two attempts do, call_openai_api raises nothing and
\* returns None or the content of an attempt that succeeded.
C16_NoFailureEscapes ==
    (args.op = "call_openai_api" /\ ret.op = "call_openai_api") =>
        /\ ret.raised = "none"
        /\ \/ ret.val.null
           \/ \E o \in {args.first, args.second} :
                 o.kind = "content" /\ ret.val = o.content

\* A TypeError on the first attempt and an error on the retry: None.
C16_Witness ==
    /\ args.op = "call_openai_api"
    /\ ret.op = "call_openai_api"
    /\ args.first.kind = "raise"
    /\ args.first.exc = "TypeError"
    /\ args.second.kind = "no_choices"
    /\ ret.raised = "none"
    /\ ret.val.null

----------------------------------------------------------------------------
\* suggest_next_sentences.
\*
\* The fixed stretches of the fallback sentences are single symbols.

\* lstrip("0123456789.-•* ")
NextMarkers == Digits \cup {".", "-", "bullet", "*", " "}

\* str.replace("  ", " "): pairs of spaces from the left, without overlap.
RECURSIVE ReplaceDoubleSpace(_)
ReplaceDoubleSpace(s) ==
    IF Len(s) < 2 THEN s
    ELSE IF s[1] = " " /\ s[2] = " "
         THEN <<" ">> \o ReplaceDoubleSpace(SubSeq(s, 3, Len(s)))
    ELSE <<s[1]>> \o ReplaceDoubleSpace(Tail(s))

\* ln.lstrip("0123456789.-•* ").strip().replace("  ", " ").rstrip()
CleanNextLine(ln) == RStrip(ReplaceDoubleSpace(Strip(LStripChars(ln, NextMarkers))))

\* The loop over cand_lines: distinct non-empty cleaned lines, n at most.
RECURSIVE FirstCandidates(_, _, _)
FirstCandidates(ls, cleaned, n) ==
    IF ls = <<>> \/ Len(cleaned) >= n THEN cleaned
    ELSE LET s == CleanNextLine(Strip(Head(ls))) IN
         IF s = <<>> \/ s \in Elems(cleaned)
         THEN FirstCandidates(Tail(ls), cleaned, n)
         ELSE FirstCandidates(Tail(ls), Append(cleaned, s), n)

\* s.split(' ')[0]
FirstWord(s) ==
    IF \A i \in 1..Len(s) : s[i] # " " THEN s
    ELSE SubSeq(s, 1, (CHOOSE i \in 1..Len(s) :
                          s[i] = " " /\ \A j \in 1..(i - 1) : s[j] # " ") - 1)

SummarySentence(s) == <<"I", " ">> \o FirstWord(s) \o <<" ", "recall_and_write_more">>

\* sc[:20]
SceneCut == 20

SceneSentence(sc) == <<"especially", " ", "'">> \o Prefix(sc, SceneCut) \o <<"'", " ", "scene_feelings">>

KeywordSentence(kw) == <<"I", " ">> \o kw \o <<"small_practice">>

CompareSentence == <<"compare_scene_with_experience">>

PractiseSentence == <<"practise_lesson_for_a_day">>

\* The keyword used when none is selected and none is indexed.
DefaultKeyword == <<"story">>

\* The non-empty elements of a list, each turned into a sentence.
RECURSIVE SentencesOf(_, _)
SentencesOf(ls, kind) ==
    IF ls = <<>> THEN <<>>
    ELSE (IF Head(ls) = <<>> THEN <<>>
          ELSE IF kind = "summary" THEN <<SummarySentence(Head(ls))>>
          ELSE <<SceneSentence(Head(ls))>>) \o SentencesOf(Tail(ls), kind)

\* fallback_pool
NextFallbackPool(idx, kw) ==
    SentencesOf(Prefix(idx.summary, 2), "summary")
    \o SentencesOf(Prefix(idx.key_scenes, 2), "scene")
    \o << KeywordSentence(IF kw # <<>> THEN kw
                          ELSE IF idx.keywords # <<>> THEN idx.keywords[1]
                          ELSE DefaultKeyword),
          CompareSentence, PractiseSentence >>

\* The loop over fallback_pool.
RECURSIVE FillFromPool(_, _, _)
FillFromPool(pool, cleaned, n) ==
    IF pool = <<>> \/ Len(cleaned) >= n THEN cleaned
    ELSE IF Head(pool) \in Elems(cleaned) THEN FillFromPool(Tail(pool), cleaned, n)
    ELSE FillFromPool(Tail(pool), Append(cleaned, Head(pool)), n)

\* suggest_next_sentences for a response of call_openai_api; idx is the session's
\* book_index_json and kw its focus_kw.
suggest_next_sentences(resp, n, idx, kw) ==
    LET text == IF Truthy(resp) THEN resp.text ELSE <<>>
        cleaned == FirstCandidates(RawLines(text), <<>>, n)
    IN Take(IF Len(cleaned) < n THEN FillFromPool(NextFallbackPool(idx, kw), cleaned, n)
            ELSE cleaned, n)

\* The requested numbers of sentences the model tries.
NextCounts == 1..5

NextResponses ==
    { NullResponse,
      TextResponse(<<>>),
      TextResponse(<<"1", ".", " ", "s", "1", ".">>),
      TextResponse(<<"s", "1", ".", "\n", "-", " ", "s", "1", ".", " ", "\n", "\n",
                     "s", " ", " ", "2", ".">>),
      TextResponse(<<"compare_scene_with_experience", "\n", "practise_lesson_for_a_day">>),
      TextResponse(<<"s", "1", "\n", "s", "2", "\n", "s", "3", "\n", "s", "4", "\n",
                     "s", "5", "\n", "s", "6">>) }

\* book_index_json: empty, two summaries with the same first word, and full.
NextIndexes ==
    { [summary |-> <<>>, key_scenes |-> <<>>, keywords |-> <<>>],
      [summary |-> << <<"w", " ", "a">>, <<"w", " ", "b">> >>, key_scenes |-> <<>>,
       keywords |-> <<>>],
      [summary |-> << <<"u", " ", "a">>, <<"v">>, <<"w">> >>,
       key_scenes |-> << <<"c", "1">>, <<>>, <<"c", "3">> >>,
       keywords |-> << <<"k", "1">>, <<"k", "2">> >>] }

NextKeywords == { <<>>, <<"k">> }

InitNextSentences ==
    /\ IdleSession
    /\ inflight = NoCalls
    /\ args \in [op : {"suggest_next_sentences"}, resp : NextResponses, n : NextCounts,
                 idx : NextIndexes, focus_kw : NextKeywords]

CallSuggestNextSentences ==
    /\ args.op = "suggest_next_sentences"
    /\ ret.op = "none"
    /\ ret' = [op |-> "suggest_next_sentences", n |-> args.n,
               val |-> suggest_next_sentences(args.resp, args.n, args.idx, args.focus_kw)]
    /\ UNCHANGED <<draft, queue, saved_versions, use_chat_mode, events, clock, pc,
                   trigger, drains, earlyAccess, baseDraft, enqLog, sugVars, qVars,
                   args, inflight>>

NextNextSentences == CallSuggestNextSentences

SpecNextSentences == InitNextSentences /\ [][NextNextSentences]_vars

\* C17 as stated: suggest_next_sentences returns exactly n pairwise distinct
\* sentences for every n >= 1, every response and every book index.
C17_AlwaysNDistinct ==
    ret.op = "suggest_next_sentences" =>
        /\ Len(ret.val) = args.n
        /\ \A i, j \in 1..Len(ret.val) : ret.val[i] = ret.val[j] => i = j

----------------------------------------------------------------------------
\* The lead-in words and the size of the question history.

\* C18 as stated: the three questions generate_guiding_questions returns start
\* with the three lead-in words, each question with a different one.
C18_DistinctLeadIns ==
    Returned =>
        /\ Len(ret.val) = 3
        /\ { ret.val[i][1] : i \in 1..Len(ret.val) } = {"Why", "How", "If"}

\* C19: question_history never holds more than 50 entries.
C19_HistoryAtMost50 == Len(question_history) <= 50

\* A call that found 48 or more entries in the history left exactly 50.
C19_Witness ==
    /\ Returned
    /\ Len(ret.hist) + Len(ret.val) > 50
    /\ Len(question_history) = 50

----------------------------------------------------------------------------
\* A drain of an empty queue.

\* C20: when the pending queue is empty (or absent), _apply_draft_queue leaves
\* the draft exactly as it was, whitespace at its ends included, and changes
\* nothing else of the session state.
C20_EmptyDrainIsNoOp ==
    [][(ret.op = "none" /\ ret'.op = "_apply_draft_queue" /\ queue = <<>>) =>
          /\ draft' = draft
          /\ queue' = <<>>
          /\ UNCHANGED <<saved_versions, use_chat_mode, events, n_sugs, focus_kw,
                         ai_suggestions_cache, question_history, question_nonce>>]_vars

\* A drain of an empty queue that left a draft with whitespace at an end.
C20_Witness ==
    /\ JustDrained
    /\ ret.n = 0
    /\ enqLog = <<>>
    /\ draft = baseDraft
    /\ draft # Strip(draft)

----------------------------------------------------------------------------
\* detect_stage_llm: the stage read from a response of the model.
\*
\* A response is a sequence of one-character symbols; "gyeol", "lon" are the
\* two syllables of the Korean word for conclusion.

\* str.lower() on the letters the responses of the model use.
LowerChar(c) ==
    CASE c = "I" -> "i" [] c = "N" -> "n" [] c = "T" -> "t" [] c = "R" -> "r"
      [] c = "O" -> "o" [] c = "C" -> "c" [] c = "L" -> "l" [] c = "B" -> "b"
      [] c = "D" -> "d" [] c = "Y" -> "y"
      [] OTHER -> c

Lower(s) == [i \in 1..Len(s) |-> LowerChar(s[i])]

LabelIntro == <<"i", "n", "t", "r", "o">>

LabelBody == <<"b", "o", "d", "y">>

LabelConcl == <<"c", "o", "n", "c", "l">>

WordConclusion == <<"gyeol", "lon">>

\* detect_stage_llm for a response of call_openai_api.
detect_stage_llm(resp) ==
    LET r == Lower(IF Truthy(resp) THEN resp.text ELSE <<>>) IN
    IF Contains(r, LabelIntro) THEN "intro"
    ELSE IF Contains(r, LabelConcl) \/ Contains(r, WordConclusion) THEN "concl"
    ELSE "body"

StageResponses ==
    { NullResponse,
      TextResponse(<<>>),
      TextResponse(<<"i", "n", "t", "r", "o">>),
      TextResponse(<<"I", "n", "t", "r", "o", ".">>),
      TextResponse(<<"b", "o", "d", "y">>),
      TextResponse(<<"B", "O", "D", "Y">>),
      TextResponse(<<"c", "o", "n", "c", "l">>),
      TextResponse(<<"C", "o", "n", "c", "l", "u", "s", "i", "o", "n">>),
      TextResponse(<<"gyeol", "lon">>),
      TextResponse(<<"x", "y", "z">>),
      TextResponse(<<"i", "n", "t", "r", "o", " ", "c", "o", "n", "c", "l">>),
      TextResponse(<<"c", "o", "n", "c", "l", "/", "i", "n", "t", "r", "o">>),
      TextResponse(<<"b", "o", "d", "y", " ", "c", "o", "n", "c", "l">>),
      TextResponse(<<"i", "n", "t", "r", "o", " ", "b", "o", "d", "y">>) }

InitStageLlm ==
    /\ IdleSession
    /\ inflight = NoCalls
    /\ args \in [op : {"detect_stage_llm"}, resp : StageResponses,
                 draft : UserDrafts, outline : StageOutlines]

CallDetectStageLlm ==
    /\ args.op = "detect_stage_llm"
    /\ ret.op = "none"
    /\ ret' = [op |-> "detect_stage_llm", val |-> detect_stage_llm(args.resp)]
    /\ UNCHANGED <<draft, queue, saved_versions, use_chat_mode, events, clock, pc,
                   trigger, drains, earlyAccess, baseDraft, enqLog, sugVars, qVars,
                   args, inflight>>

NextStageLlm == CallDetectStageLlm

SpecStageLlm == InitStageLlm /\ [][NextStageLlm]_vars

\* The labels a response names, letter case ignored.
LabelsNamed(resp) ==
    IF resp.null THEN {}
    ELSE { l \in {LabelIntro, LabelBody, LabelConcl} : Contains(Lower(resp.text), l) }

\* C21 as stated: detect_stage_llm returns one of intro, body, concl, and body
\* whenever the response is None, empty, names no label or names more than one.
C21_AmbiguousGivesBody ==
    ret.op = "detect_stage_llm" =>
        /\ ret.val \in {"intro", "body", "concl"}
        /\ Cardinality(LabelsNamed(args.resp)) # 1 => ret.val = "body"

----------------------------------------------------------------------------
\* The length at which a response line is kept.

\* C22 as stated: a response line is discarded exactly when, stripped of
\* markers and whitespace, it is shorter than 8 characters; a stripped line of
\* exactly 8 characters is kept.
C22_EightIsKept ==
    (ret.op = "generate_ai_suggestions" /\ ret.called /\ Truthy(ret.resp)) =>
        LET ls == SplitLines(ret.resp.text)
            long == { i \in 1..Len(ls) : Len(CleanSuggestionLine(ls[i])) >= 8 }
        IN /\ \A i \in 1..Len(ret.val) : Len(ret.val[i]) >= 8
           /\ Cardinality(long) <= ret.n =>
                 \A i \in long : CleanSuggestionLine(ls[i]) \in Elems(ret.val)

----------------------------------------------------------------------------
\* get_fallback_suggestions called repeatedly with the same arguments.

\* Bound on the calls of get_fallback_suggestions.
MaxFallbackCalls == 2

InitFallback ==
    /\ IdleSession
    /\ inflight = NoCalls
    /\ args \in [op : {"get_fallback_suggestions"}, block : Blocks, n : 1..5]

\* One call: random.sample picks any arrangement without repetition.
CallGetFallbackSuggestions ==
    /\ args.op = "get_fallback_suggestions"
    /\ \/ ret.op = "none"
       \/ ret.op = "get_fallback_suggestions" /\ ret.call < MaxFallbackCalls
    /\ \E fb \in FallbackSamples(args.block, args.n) :
          ret' = [op |-> "get_fallback_suggestions",
                  call |-> IF ret.op = "none" THEN 1 ELSE ret.call + 1,
                  val |-> fb]
    /\ UNCHANGED <<draft, queue, saved_versions, use_chat_mode, events, clock, pc,
                   trigger, drains, earlyAccess, baseDraft, enqLog, sugVars, qVars,
                   args, inflight>>

NextFallback == CallGetFallbackSuggestions

SpecFallback == InitFallback /\ [][NextFallback]_vars

\* C23 as stated: a call of get_fallback_suggestions returns the list the call
\* before it returned for the same block and the same n, items and order alike.
C23_FallbackDeterministic ==
    [][(ret.op = "get_fallback_suggestions" /\ ret'.op = "get_fallback_suggestions")
          => ret'.val = ret.val]_vars

----------------------------------------------------------------------------
\* The entries of the suggestion cache over time.

\* C24: an entry of ai_suggestions_cache is never changed and never removed:
\* every key of the cache is a key after every step, with the same list.
C24_EntriesAreKept ==
    [][\A key \in DOMAIN ai_suggestions_cache :
          /\ key \in DOMAIN ai_suggestions_cache'
          /\ ai_suggestions_cache'[key] = ai_suggestions_cache[key]]_vars

\* A second entry was stored and the first one is still there.
C24_Witness ==
    /\ ret.op = "generate_ai_suggestions"
    /\ ret.called
    /\ ret.key \in DOMAIN ai_suggestions_cache
    /\ Cardinality(DOMAIN ai_suggestions_cache) = 2

----------------------------------------------------------------------------
\* index_book_text and the parsed book index.
\*
\* A JSON value is a record with its type; a list carries its items, an object
\* its fields as a dict.

\* d.get(k, default)
DictGet(d, k, default) ==
    IF \E i \in 1..Len(d) : d[i][1] = k
    THEN d[CHOOSE i \in 1..Len(d) : d[i][1] = k][2]
    ELSE default

EmptyList == [type |-> "list", items |-> <<>>]

IndexFields == <<"summary", "key_scenes", "keywords">>

\* What the model can put in a field of its answer.
FieldValues ==
    { EmptyList,
      [type |-> "list", items |-> << <<"s", "1">>, <<"s", "2">> >>],
      [type |-> "str", text |-> <<"s", "1">>],
      [type |-> "null"] }

\* No value: the field is not in the object.
Missing == [type |-> "missing"]

\* The object with the given value for each field, Missing for none.
ObjectOf(vals) ==
    [type |-> "object",
     fields |-> (IF vals[1].type = "missing" THEN <<>> ELSE << <<IndexFields[1], vals[1]>> >>)
                \o (IF vals[2].type = "missing" THEN <<>> ELSE << <<IndexFields[2], vals[2]>> >>)
                \o (IF vals[3].type = "missing" THEN <<>> ELSE << <<IndexFields[3], vals[3]>> >>)]

\* What json.loads(res) can do: raise, or return a value.
LoadsOutcomes ==
    { [ok |-> FALSE] }
    \cup { [ok |-> TRUE, value |-> v] :
             v \in { [type |-> "null"], [type |-> "number"],
                     [type |-> "str", text |-> <<"s", "1">>],
                     [type |-> "list", items |-> << <<"s", "1">> >>] } }
    \cup { [ok |-> TRUE, value |-> ObjectOf(vals)] :
             vals \in [1..3 -> FieldValues \cup {Missing}] }

\* A field stored as the model gave it, without the isinstance test.
FieldOrEmpty_raw(data, name) == DictGet(data.fields, name, EmptyList)

\* data.get(name, []) if isinstance(data.get(name, []), list) else []
FieldOrEmpty(data, name) ==
    LET v == DictGet(data.fields, name, EmptyList)
    IN IF v.type = "list" THEN v ELSE EmptyList

\* index_book_text: res is the response of call_openai_api, loads what
\* json.loads does with it, prev the session's book_index and book_index_json.
index_book_text(book_text, res, loads, prev) ==
    IF Strip(book_text) = <<>> THEN [prev EXCEPT !.shown = "warning_no_text"]
    ELSE IF ~Truthy(res) THEN [prev EXCEPT !.shown = "warning_failed"]
    ELSE [raised |-> "none",
          book_index |-> res.text,
          book_index_json |->
              IF loads.ok /\ loads.value.type = "object"
              THEN [i \in 1..3 |-> <<IndexFields[i],
                                     FieldOrEmpty(loads.value, IndexFields[i])>>]
              ELSE <<>>,
          shown |-> "success"]

\* The session before the call: nothing indexed, or a book indexed earlier.
IndexSessions ==
    { [raised |-> "none", book_index |-> <<>>, book_index_json |-> <<>>,
       shown |-> "none"],
      [raised |-> "none", book_index |-> <<"o", "l", "d">>,
       book_index_json |-> [i \in 1..3 |-> <<IndexFields[i], EmptyList>>],
       shown |-> "none"] }

IndexResponses == { NullResponse, TextResponse(<<>>), TextResponse(<<"j">>) }

InitIndex ==
    /\ IdleSession
    /\ inflight = NoCalls
    /\ args \in [op : {"index_book_text"}, book_text : { <<" ">>, <<"t">> },
                 res : IndexResponses, loads : LoadsOutcomes, prev : IndexSessions]

CallIndexBookText ==
    /\ args.op = "index_book_text"
    /\ ret.op = "none"
    /\ LET r == index_book_text(args.book_text, args.res, args.loads, args.prev)
       IN ret' = [op |-> "index_book_text", raised |-> r.raised,
                  book_index |-> r.book_index, book_index_json |-> r.book_index_json,
                  shown |-> r.shown]
    /\ UNCHANGED <<draft, queue, saved_versions, use_chat_mode, events, clock, pc,
                   trigger, drains, earlyAccess, baseDraft, enqLog, sugVars, qVars,
                   args, inflight>>

NextIndex == CallIndexBookText

SpecIndex == InitIndex /\ [][NextIndex]_vars

\* The response was parsed: there was text to index and the response is not
\* None or empty.
IndexParsed ==
    /\ args.op = "index_book_text"
    /\ ret.op = "index_book_text"
    /\ ret.shown = "success"

\* The answer is an object that holds a list under the name.
GaveList(name) ==
    /\ args.loads.ok
    /\ args.loads.value.type = "object"
    /\ \E i \in 1..Len(args.loads.value.fields) :
          /\ args.loads.value.fields[i][1] = name
          /\ args.loads.value.fields[i][2].type = "list"

\* C25: index_book_text raises nothing, and after it each of summary,
\* key_scenes and keywords read from book_index_json is a list, the empty one
\* when the response was not JSON, not an object, or did not hold a list there.
C25_FieldsAreLists ==
    (args.op = "index_book_text" /\ ret.op = "index_book_text") =>
        /\ ret.raised = "none"
        /\ \A i \in 1..3 :
              LET v == DictGet(ret.book_index_json, IndexFields[i], EmptyList)
              IN /\ v.type = "list"
                 /\ (IndexParsed /\ ~GaveList(IndexFields[i])) => v.items = <<>>

\* An object with a string for summary, no key_scenes and a list of keywords.
C25_Witness ==
    /\ IndexParsed
    /\ args.loads.ok
    /\ args.loads.value.type = "object"
    /\ DictGet(args.loads.value.fields, "summary", EmptyList).type = "str"
    /\ DictGet(args.loads.value.fields, "key_scenes", Missing) = Missing
    /\ GaveList("keywords")
    /\ DictGet(ret.book_index_json, "summary", Missing) = EmptyList
    /\ DictGet(ret.book_index_json, "key_scenes", Missing) = EmptyList
    /\ DictGet(ret.book_index_json, "keywords", EmptyList).items # <<>>

----------------------------------------------------------------------------
\* generate_ai_suggestions with two calls in progress at once. The function
\* takes no lock: between the lookup and the store of one call another call
\* can run.

\* The two calls.
Callers == {1, 2}

IdleCall == [pc |-> "idle"]

InitInterleaved ==
    /\ IdleSession
    /\ args = NoArgs
    /\ inflight = [c \in Callers |-> IdleCall]

\* The call up to the request to the client: the key and the lookup.
SugLookup(c) ==
    /\ inflight[c].pc = "idle"
    /\ \E block \in Blocks :
        LET n == n_sugs
            cache_key == CacheKey(SessionContext, block, n)
        IN IF CacheHit(ai_suggestions_cache, cache_key)
           THEN /\ inflight' = [inflight EXCEPT ![c] =
                      [pc |-> "done", block |-> block, n |-> n, key |-> cache_key,
                       missed |-> FALSE, resp |-> NullResponse,
                       val |-> ai_suggestions_cache[cache_key]]]
                /\ ret' = [op |-> "generate_ai_suggestions", n |-> n, key |-> cache_key,
                           val |-> ai_suggestions_cache[cache_key], called |-> FALSE,
                           resp |-> NullResponse]
                /\ UNCHANGED apiLog
           ELSE /\ inflight' = [inflight EXCEPT ![c] =
                      [pc |-> "calling", block |-> block, n |-> n, key |-> cache_key]]
                /\ apiLog' = Append(apiLog, cache_key)
                /\ UNCHANGED ret
    /\ UNCHANGED <<draft, queue, saved_versions, use_chat_mode, events, clock, pc,
                   trigger, drains, earlyAccess, baseDraft, enqLog, n_sugs,
                   ai_suggestions_cache, sugCalls, qVars, args>>

\* The response arrives: the store and the return, or the fallback.
SugFinish(c) ==
    /\ inflight[c].pc = "calling"
    /\ LET block == inflight[c].block
           n == inflight[c].n
           cache_key == inflight[c].key
       IN \E response \in SuggestionResponses :
            IF Truthy(response)
            THEN LET lines == SuggestionLines(response.text, n) IN
                 /\ ai_suggestions_cache' =
                        CacheStore(ai_suggestions_cache, cache_key, lines)
                 /\ events' = Append(events,
                        [kind |-> "ai_suggestions_generated",
                         payload |-> <<block, Len(lines)>>])
                 /\ inflight' = [inflight EXCEPT ![c] =
                        [pc |-> "done", block |-> block, n |-> n, key |-> cache_key,
                         missed |-> TRUE, resp |-> response, val |-> lines]]
                 /\ ret' = [op |-> "generate_ai_suggestions", n |-> n,
                            key |-> cache_key, val |-> lines, called |-> TRUE,
                            resp |-> response]
            ELSE \E fb \in FallbackSamples(block, n) :
                 /\ inflight' = [inflight EXCEPT ![c] =
                        [pc |-> "done", block |-> block, n |-> n, key |-> cache_key,
                         missed |-> TRUE, resp |-> response, val |-> fb]]
                 /\ ret' = [op |-> "generate_ai_suggestions", n |-> n,
                            key |-> cache_key, val |-> fb, called |-> TRUE,
                            resp |-> response]
                 /\ UNCHANGED <<ai_suggestions_cache, events>>
    /\ UNCHANGED <<draft, queue, saved_versions, use_chat_mode, clock, pc, trigger,
                   drains, earlyAccess, baseDraft, enqLog, n_sugs, apiLog, sugCalls,
                   qVars, args>>

NextInterleaved == \E c \in Callers : SugLookup(c) \/ SugFinish(c)

SpecInterleaved == InitInterleaved /\ [][NextInterleaved]_vars

\* How often the client was invoked for a key.
Invocations(key) == Cardinality({ i \in 1..Len(apiLog) : apiLog[i] = key })

\* C26 as stated: when two calls with the same key both miss the cache and the
\* client answers both with suggestions, the client was invoked once for the
\* key and both calls returned the same list.
C26_InterleavedMissesCollapse ==
    \A a, b \in DOMAIN inflight :
        (/\ a # b
         /\ inflight[a].pc = "done"
         /\ inflight[b].pc = "done"
         /\ inflight[a].key = inflight[b].key
         /\ inflight[a].missed /\ Truthy(inflight[a].resp)
         /\ inflight[b].missed /\ Truthy(inflight[b].resp))
        => /\ Invocations(inflight[a].key) = 1
           /\ inflight[a].val = inflight[b].val

----------------------------------------------------------------------------
\* The saved versions.

\* The step is the revert of render_snapshot_bar.
RevertStep ==
    /\ Running("render_editor")
    /\ trigger.kind = "revert"
    /\ pc' # pc

\* The step is a click on the save button.
SaveStep == pc = 0 /\ pc' = 1 /\ ret'.op = "_save_snapshot"

----------------------------------------------------------------------------
\* The pending queue.

\* The step is a call of _queue_append with an empty fragment.
EmptyAppendStep ==
    /\ Running("render_editor")
    /\ trigger.kind = "add"
    /\ trigger.text = <<>>
    /\ pc' # pc

\* C28: the queue never holds more than one fragment, and a call of
\* _queue_append with an empty fragment leaves the queue and the draft as they
\* are and the script goes on to its end without a rerun.
C28_QueueAtMostOne ==
    [][/\ Len(queue) <= 1
       /\ Len(queue') <= 1
       /\ EmptyAppendStep =>
             /\ queue' = queue
             /\ draft' = draft
             /\ pc' = NextPc
             /\ drains' = drains]_vars

\* One fragment is pending when the rerun reaches the drain.
C28_Witness ==
    /\ Running("_apply_draft_queue")
    /\ Len(queue) = 1
    /\ trigger = NoTrigger

----------------------------------------------------------------------------
\* The edges of the draft after a drain.

\* The drain appended a fragment: the popped queue held a non-empty one.
AppliedFragment == JustDrained /\ \E i \in 1..Len(enqLog) : enqLog[i] # <<>>

\* C29: after a drain that applied at least one fragment the draft neither
\* starts nor ends with whitespace, whatever was in the draft before.
C29_DrainedDraftHasCleanEdges ==
    AppliedFragment =>
        \/ draft = <<>>
        \/ /\ draft[1] \notin Whitespace
           /\ draft[Len(draft)] \notin Whitespace

\* A draft that started with a blank has lost it in the drain of one fragment.
C29_Witness ==
    /\ AppliedFragment
    /\ baseDraft = <<" ", "x">>
    /\ Len(enqLog) = 1
    /\ draft[1] = "x"

====
